---- MODULE Spec2Model ----
(***************************************************************************)
(* DomTreeBuilder (decompiler/controlFlow/DomTreeBuilder.ts): the          *)
(* Cooper-Harvey-Kennedy iterative dominator-tree construction.            *)
(*                                                                         *)
(* The repository holds two variants of the builder; they differ only in   *)
(* where a node's predecessors are read (graph.edgesTo or node.parents) and *)
(* in the name of the index field (.postorder or .order).                  *)
(*                                                                         *)
(* A CfgNode is identified with its .postorder index: _buildNodeArray      *)
(* stores the node whose postorder is p at _nodes[p], and every comparison *)
(* the algorithm makes is on .postorder.  A ControlFlowGraph is its size   *)
(* and its reverse-edge query edgesTo.  DominatorTree objects live in a    *)
(* heap of two slots: the one the builder is filling and the one the       *)
(* caller still holds from the latest successful build.                    *)
(***************************************************************************)
EXTENDS Integers, Sequences, FiniteSets, TLC

\* Largest graph.size a build call is given.
MaxNodes == 4
\* Largest number of edges of a graph a build call is given.
MaxEdges == 6

\* The null of `let newIDom: CfgNode = null` and of getDominator's result.
Null == -1

VARIABLES
    graph,      \* this._graph: [size, edgesTo]
    nodes,      \* this._nodes: postorder index -> node
    heap,       \* DominatorTree objects: slot -> (node -> dominator or Null)
    domTree,    \* this._domTree: the slot of the tree being built (0: none yet)
    held,       \* the slot of the tree the caller holds from the latest earlier
                \* call that returned (0: none)
    prior,      \* how the call before the running one ended: "none", "returned", "failed"
    repeat,     \* the call before returned, and was given the same graph as the running one
    pc,         \* position of the running build call
    i,          \* the for loop's index
    changed,    \* the while loop's flag
    passes,     \* passes of the while loop begun in this call
    passStart,  \* the tree as it was when the current pass began
    err         \* postorder index carried by DomTreeBuilder.Error (Null: none)

vars == <<graph, nodes, heap, domTree, held, prior, repeat, pc, i, changed, passes, passStart, err>>

----------------------------------------------------------------------------
(* Graphs *)

NodesOf(n) == 0 .. (n - 1)

\* A graph of n nodes from the predecessor sets of its non-entry nodes.  edgesTo
\* of the entry is left empty: build never queries it (the for loop starts at
\* numNodes - 2), and an edge into the entry changes neither reachability from
\* the entry nor dominance.
MakeGraph(n, f) ==
    [ size    |-> n,
      edgesTo |-> [ x \in NodesOf(n) |-> IF x = n - 1 THEN {} ELSE f[x] ] ]

\* The predecessor sets an n-node graph may have.
PredChoices(n) == [ NodesOf(n - 1) -> SUBSET NodesOf(n) ]

RECURSIVE EdgesUpTo(_, _)
EdgesUpTo(f, x) == IF x < 0 THEN 0 ELSE Cardinality(f[x]) + EdgesUpTo(f, x - 1)

\* Number of edges of the graph MakeGraph(n, f).
EdgeCount(n, f) == EdgesUpTo(f, n - 2)

NoGraph == [ size |-> 0, edgesTo |-> <<>> ]

Entry(g) == g.size - 1

Succ(g, x) == { y \in NodesOf(g.size) : x \in g.edgesTo[y] }

----------------------------------------------------------------------------
(* DominatorTree *)

\* new DominatorTree (graph): every node unset, the entry its own dominator.
NewDominatorTree(g) == [ x \in NodesOf(g.size) |-> IF x = Entry(g) THEN x ELSE Null ]

getDominator(t, x) == t[x]

setDominator(t, x, d) == [ t EXCEPT ![x] = d ]

----------------------------------------------------------------------------
(* DomTreeBuilder *)

\* nodes.length of `new Array (graph.size)`.
Length(a) == Cardinality(DOMAIN a)

BuildNodeArray(g) == [ p \in NodesOf(g.size) |-> p ]

\* Steps after which a walk of two fingers over n nodes has repeated a position.
WalkFuel(t) == Cardinality(DOMAIN t) * Cardinality(DOMAIN t) + 1

\* _intersectDoms with its two comparisons the wrong way round: the finger at
\* the larger postorder moves.
RECURSIVE Walk_LargerFingerMoves(_, _, _, _)
Walk_LargerFingerMoves(t, finger1, finger2, fuel) ==
    IF finger1 = finger2 THEN [ st |-> "ok", node |-> finger1 ]
    ELSE IF fuel = 0 THEN [ st |-> "hang", node |-> Null ]
    ELSE IF finger1 > finger2
         THEN IF getDominator(t, finger1) = Null
              THEN [ st |-> "typeerror", node |-> Null ]
              ELSE Walk_LargerFingerMoves(t, getDominator(t, finger1), finger2, fuel - 1)
         ELSE IF getDominator(t, finger2) = Null
              THEN [ st |-> "typeerror", node |-> Null ]
              ELSE Walk_LargerFingerMoves(t, finger1, getDominator(t, finger2), fuel - 1)

\* _intersectDoms: the finger at the smaller postorder moves to its dominator.
\* A finger that becomes null makes the next `.postorder` a TypeError; a walk
\* that repeats a position never ends.
RECURSIVE Walk(_, _, _, _)
Walk(t, finger1, finger2, fuel) ==
    IF finger1 = finger2 THEN [ st |-> "ok", node |-> finger1 ]
    ELSE IF fuel = 0 THEN [ st |-> "hang", node |-> Null ]
    ELSE IF finger1 < finger2
         THEN IF getDominator(t, finger1) = Null
              THEN [ st |-> "typeerror", node |-> Null ]
              ELSE Walk(t, getDominator(t, finger1), finger2, fuel - 1)
         ELSE IF getDominator(t, finger2) = Null
              THEN [ st |-> "typeerror", node |-> Null ]
              ELSE Walk(t, finger1, getDominator(t, finger2), fuel - 1)

\* _intersectDoms returning its first argument without walking.
IntersectDoms_ReturnsNode1(t, node1, node2) == [ st |-> "ok", node |-> node1 ]

IntersectDoms(t, node1, node2) == Walk(t, node1, node2, WalkFuel(t))

\* The orders in which a Set of predecessors may be iterated.
Orders(S) ==
    { o \in [ 1 .. Cardinality(S) -> S ] : \A a, b \in DOMAIN o : a # b => o[a] # o[b] }

\* The first predecessor loop without its test for a calculated dominator.
FirstKnown_NoNullTest(t, ord, k) == IF Len(ord) = 0 THEN 0 ELSE 1

\* The first predecessor loop giving up after the first predecessor.
FirstKnown_OnlyFirst(t, ord, k) ==
    IF Len(ord) = 0 THEN 0
    ELSE IF getDominator(t, ord[1]) # Null THEN 1 ELSE 0

\* Index of the first predecessor in iteration order whose dominator is known (0: none).
RECURSIVE FirstKnown(_, _, _)
FirstKnown(t, ord, k) ==
    IF k > Len(ord) THEN 0
    ELSE IF getDominator(t, ord[k]) # Null THEN k
    ELSE FirstKnown(t, ord, k + 1)

\* The predecessors left in the Set once the seed is deleted, in iteration order.
Remaining(ord, k) == [ j \in 1 .. (Len(ord) - 1) |-> IF j < k THEN ord[j] ELSE ord[j + 1] ]

\* build without its second predecessor loop: the seed is the new dominator.
Fold_SeedOnly(t, rest, k, newIDom) == [ st |-> "ok", node |-> newIDom ]

\* The second predecessor loop: fold every remaining predecessor with a known
\* dominator into newIDom.
RECURSIVE Fold(_, _, _, _)
Fold(t, rest, k, newIDom) ==
    IF k > Len(rest) THEN [ st |-> "ok", node |-> newIDom ]
    ELSE IF getDominator(t, rest[k]) = Null THEN Fold(t, rest, k + 1, newIDom)
    ELSE LET r == IntersectDoms(t, rest[k], newIDom)
         IN  IF r.st = "ok" THEN Fold(t, rest, k + 1, r.node) ELSE r

\* One iteration of the for loop's body up to the comparison with the old value.
NewIDom(t, ord) ==
    LET k == FirstKnown(t, ord, 1)
    IN  IF k = 0 THEN [ st |-> "error", node |-> Null ]
        ELSE Fold(t, Remaining(ord, k), 1, ord[k])

\* The for loop starting at the entry's index.
FirstIndex_FromEntry(numNodes) == numNodes - 1

\* The for loop starting one index too low.
FirstIndex_SkipsOne(numNodes) == numNodes - 3

\* for ( let i = numNodes - 2; ...
FirstIndex(numNodes) == numNodes - 2

\* The tree the caller holds once the call at `pc` is over.
HeldAfterCall == IF pc = "done" THEN domTree ELSE held

\* The slot a `new DominatorTree` gets: never the one the caller holds.
FreshSlot == IF HeldAfterCall = 1 THEN 2 ELSE 1

\* _init emptying the DominatorTree it has instead of making a new one.
InitDomTree_Reuse == IF domTree = 0 THEN FreshSlot ELSE domTree

\* _init: the slot this._domTree refers to after `this._domTree = new DominatorTree (graph)`.
InitDomTree == FreshSlot

\* The tree is written, and the pass marked as changed, whatever the old entry.
Differs_Always(old, newIDom) == TRUE

\* if ( domTree.getDominator (node) !== newIDom )
Differs(old, newIDom) == old # newIDom

\* The error carrying the index processed before the failing one.
ErrorIndex_Previous(node) == node + 1

\* ${node.postorder} of the error message.
ErrorIndex(node) == node

\* Passes after which the model stops a call that has not converged.
PassCap == 2 * MaxNodes + 2

\* build: _init and _buildNodeArray, up to the first test of `while ( changed )`.
Build(g) ==
    /\ graph' = g
    /\ nodes' = BuildNodeArray(g)
    /\ domTree' = InitDomTree
    /\ heap' = [ heap EXCEPT ![domTree'] = NewDominatorTree(g) ]
    /\ changed' = TRUE
    /\ pc' = "while"
    /\ i' = 0
    /\ passes' = 0
    /\ passStart' = NewDominatorTree(g)
    /\ err' = Null
    /\ held' = HeldAfterCall
    /\ prior' = IF pc = "done" THEN "returned" ELSE IF pc = "idle" THEN "none" ELSE "failed"
    /\ repeat' = (pc = "done" /\ g = graph)

\* The first call on a new builder.
FirstBuild ==
    /\ pc = "idle"
    /\ \E n \in 0 .. MaxNodes : \E f \in PredChoices(n) :
          /\ EdgeCount(n, f) <= MaxEdges
          /\ Build(MakeGraph(n, f))

\* while ( changed ) { changed = false; for ( let i = numNodes - 2; ...
BeginPass ==
    /\ pc = "while"
    /\ changed
    /\ passes < PassCap
    /\ changed' = FALSE
    /\ i' = FirstIndex(Length(nodes))
    /\ pc' = IF i' >= 0 THEN "for" ELSE "while"
    /\ passes' = passes + 1
    /\ passStart' = heap[domTree]
    /\ UNCHANGED <<graph, nodes, heap, domTree, held, prior, repeat, err>>

\* The body of the for loop for nodes[i], for one iteration order of its predecessors.
ProcessNode ==
    /\ pc = "for"
    /\ i >= 0
    /\ LET node == nodes[i]
           t    == heap[domTree]
       IN  \E ord \in Orders(graph.edgesTo[node]) :
              LET r == NewIDom(t, ord)
              IN  IF r.st = "ok"
                  THEN /\ IF Differs(getDominator(t, node), r.node)
                          THEN /\ heap' = [ heap EXCEPT ![domTree] = setDominator(t, node, r.node) ]
                               /\ changed' = TRUE
                          ELSE UNCHANGED <<heap, changed>>
                       /\ i' = i - 1
                       /\ pc' = IF i' >= 0 THEN "for" ELSE "while"
                       /\ err' = err
                  ELSE /\ pc' = r.st
                       /\ err' = IF r.st = "error" THEN ErrorIndex(node) ELSE Null
                       /\ UNCHANGED <<heap, changed, i>>
    /\ UNCHANGED <<graph, nodes, domTree, held, prior, repeat, passes, passStart>>

\* while ( changed ) fails: build returns this._domTree.
Return ==
    /\ pc = "while"
    /\ ~changed
    /\ pc' = "done"
    /\ UNCHANGED <<held, prior, repeat, graph, nodes, heap, domTree, i, changed, passes, passStart, err>>

Init ==
    /\ graph = NoGraph
    /\ nodes = <<>>
    /\ heap = [ s \in 1 .. 2 |-> <<>> ]
    /\ domTree = 0
    /\ held = 0
    /\ prior = "none"
    /\ repeat = FALSE
    /\ pc = "idle"
    /\ i = 0
    /\ changed = FALSE
    /\ passes = 0
    /\ passStart = <<>>
    /\ err = Null

Next == FirstBuild \/ BeginPass \/ ProcessNode \/ Return

Spec == Init /\ [][Next]_vars

\* build is synchronous: once called it runs until it returns or throws.
FairSpec == Spec /\ WF_vars(BeginPass \/ ProcessNode \/ Return)

\* Largest graph.size given to a builder that is called again and again, and
\* largest graph.size of the other graphs it is given on a later call.
SeqNodes == MaxNodes - 1
OtherNodes == MaxNodes - 2

\* The first call on a builder that will be called again.
SeqFirstBuild ==
    /\ pc = "idle"
    /\ \E n \in 0 .. SeqNodes : \E f \in PredChoices(n) : Build(MakeGraph(n, f))

\* build called again with the graph of the call before, which returned or threw.
BuildSame ==
    /\ pc \in {"done", "error"}
    /\ Build(graph)

\* build called again with another graph.
BuildOther ==
    /\ pc \in {"done", "error"}
    /\ \E n \in 0 .. OtherNodes : \E f \in PredChoices(n) : Build(MakeGraph(n, f))

SeqNext == SeqFirstBuild \/ BuildSame \/ BuildOther \/ BeginPass \/ ProcessNode \/ Return

SeqSpec == Init /\ [][SeqNext]_vars

----------------------------------------------------------------------------
(* Graph facts the properties are stated with *)

\* Nodes reachable from the nodes of S along edges that avoid the nodes of V.
RECURSIVE Grow(_, _, _)
Grow(g, S, V) ==
    LET more == { y \in NodesOf(g.size) \ (S \cup V) : g.edgesTo[y] \cap S # {} }
    IN  IF more = {} THEN S ELSE Grow(g, S \cup more, V)

ReachAvoid(g, from, V) == Grow(g, {from}, V)

Reachable(g) == IF g.size = 0 THEN {} ELSE ReachAvoid(g, Entry(g), {})

AllReachable(g) == Reachable(g) = NodesOf(g.size)

\* Some depth-first search entering u with the nodes of V already visited numbers
\* the nodes below u with k .. u-1 in postorder: the next child c to be entered
\* is an unvisited successor whose subtree is exactly k .. c.
RECURSIVE DfsNumbers(_, _, _, _)
DfsNumbers(g, u, k, V) ==
    \/ k = u
    \/ \E c \in Succ(g, u) \ V :
          /\ k <= c /\ c < u
          /\ ReachAvoid(g, c, V) = k .. c
          /\ DfsNumbers(g, c, k, V \cup {c})
          /\ DfsNumbers(g, u, c + 1, V \cup (k .. c))

\* The precondition of build: every node is reachable from the entry and the
\* postorder indices are those of a depth-first search from the entry, which
\* sits at index size - 1.
ValidInput(g) ==
    \/ g.size = 0
    \/ /\ AllReachable(g)
       /\ DfsNumbers(g, Entry(g), 0, {Entry(g)})

\* a dominates b: every path from the entry to b passes through a.
Dominates(g, a, b) ==
    \/ a = b
    \/ a = Entry(g)
    \/ b \notin ReachAvoid(g, Entry(g), {a})

StrictDominators(g, b) == { a \in NodesOf(g.size) \ {b} : Dominates(g, a, b) }

\* The nodes met by following getDominator from b, at most `steps` times.
RECURSIVE Chain(_, _, _)
Chain(t, b, steps) ==
    IF steps = 0 \/ getDominator(t, b) = Null THEN {}
    ELSE {getDominator(t, b)} \cup
         (IF getDominator(t, b) = b THEN {} ELSE Chain(t, getDominator(t, b), steps - 1))

\* The tree of the running or finished call.
Tree == heap[domTree]

NonEntry(g) == NodesOf(g.size - 1)

----------------------------------------------------------------------------
(* Properties *)

\* C1: on a valid input the returned tree gives every non-entry node its true
\* immediate dominator: every tree ancestor a of b dominates b in the graph, and
\* the recorded dominator is the closest strict dominator of b (every strict
\* dominator of b dominates it).
C1_ImmediateDominators ==
    (pc = "done" /\ ValidInput(graph)) =>
        \A b \in NonEntry(graph) :
            /\ getDominator(Tree, b) \in StrictDominators(graph, b)
            /\ \A a \in Chain(Tree, b, graph.size) : Dominates(graph, a, b)
            /\ \A a \in StrictDominators(graph, b) : Dominates(graph, a, getDominator(Tree, b))

\* A diamond-like result: a node whose immediate dominator is none of its predecessors.
C1_Witness ==
    /\ pc = "done" /\ ValidInput(graph) /\ graph.size = MaxNodes
    /\ \E b \in NonEntry(graph) : getDominator(Tree, b) \notin graph.edgesTo[b]
    /\ passes > 2

\* Following getDominator from b reaches the entry within `steps` steps.
RECURSIVE ClimbsToEntry(_, _, _, _)
ClimbsToEntry(g, t, b, steps) ==
    IF b = Entry(g) THEN TRUE
    ELSE IF steps = 0 \/ getDominator(t, b) = Null THEN FALSE
    ELSE ClimbsToEntry(g, t, getDominator(t, b), steps - 1)

\* C2: in the tree a successful build returns, every non-entry node has a
\* non-null dominator, and following getDominator from it reaches the entry in
\* at most n-1 steps without coming back to a node already visited.
C2_TreeRootedAtEntry ==
    pc = "done" =>
        \A b \in NonEntry(graph) :
            /\ getDominator(Tree, b) # Null
            /\ ClimbsToEntry(graph, Tree, b, graph.size - 1)
            /\ b \notin Chain(Tree, b, graph.size)

\* A returned tree of depth two or more.
C2_Witness ==
    /\ pc = "done" /\ graph.size = MaxNodes
    /\ \E b \in NonEntry(graph) : Cardinality(Chain(Tree, b, graph.size)) >= MaxNodes - 1

\* C5: on a valid input build never raises DomTreeBuilder.Error: every node the
\* for loop is about to process has a predecessor whose dominator is known.
C5_NoErrorOnValidInput ==
    /\ pc = "error" => ~ValidInput(graph)
    /\ (pc = "for" /\ \A p \in graph.edgesTo[nodes[i]] : getDominator(Tree, p) = Null)
           => ~ValidInput(graph)

\* A node with a self-loop and a back-edge predecessor that has no dominator yet
\* was processed in the first pass, and the call went on.
C5_Witness ==
    /\ ValidInput(graph) /\ passes = 1 /\ pc = "for"
    /\ \E x \in NonEntry(graph) :
          /\ x = i + 1
          /\ x \in graph.edgesTo[x]
          /\ \E p \in graph.edgesTo[x] : p < x /\ getDominator(Tree, p) = Null
          /\ getDominator(Tree, x) # Null

\* C7: build never assigns the entry a dominator: the for loop's index stays
\* at or below n-2, and the entry's tree entry is the one the new
\* DominatorTree had; with n = 0 or n = 1 the tree is not written at all.
C7_EntryNeverAssigned ==
    pc # "idle" =>
        /\ pc = "for" => i <= graph.size - 2
        /\ graph.size >= 1 =>
              getDominator(Tree, Entry(graph)) = getDominator(NewDominatorTree(graph), Entry(graph))
        /\ graph.size <= 1 => Tree = NewDominatorTree(graph)

\* A call that has written the tree in two passes.
C7_Witness ==
    /\ pc = "done" /\ passes > 2 /\ graph.size = MaxNodes
    /\ Tree # NewDominatorTree(graph)

\* The fingers _intersectDoms advances (reads the dominator of) on its walk.
RECURSIVE Advanced(_, _, _, _)
Advanced(t, finger1, finger2, fuel) ==
    IF finger1 = finger2 \/ fuel = 0 THEN {}
    ELSE IF finger1 < finger2
         THEN {finger1} \cup
              (IF getDominator(t, finger1) = Null THEN {}
               ELSE Advanced(t, getDominator(t, finger1), finger2, fuel - 1))
         ELSE {finger2} \cup
              (IF getDominator(t, finger2) = Null THEN {}
               ELSE Advanced(t, finger1, getDominator(t, finger2), fuel - 1))

\* The <<node1, node2>> of the _intersectDoms calls the second predecessor loop makes.
RECURSIVE FoldCalls(_, _, _, _)
FoldCalls(t, rest, k, newIDom) ==
    IF k > Len(rest) THEN {}
    ELSE IF getDominator(t, rest[k]) = Null THEN FoldCalls(t, rest, k + 1, newIDom)
    ELSE LET r == IntersectDoms(t, rest[k], newIDom)
         IN  {<<rest[k], newIDom>>} \cup
             (IF r.st = "ok" THEN FoldCalls(t, rest, k + 1, r.node) ELSE {})

\* The _intersectDoms calls processing nodes[i] may make, over all iteration orders.
CallsAhead ==
    UNION { LET k == FirstKnown(Tree, ord, 1)
            IN  IF k = 0 THEN {} ELSE FoldCalls(Tree, Remaining(ord, k), 1, ord[k])
            : ord \in Orders(graph.edgesTo[nodes[i]]) }

\* b and the nodes above it in the tree.
SelfAndAbove(t, b) == {b} \cup Chain(t, b, Cardinality(DOMAIN t))

\* Dominator entries increase in postorder index.
Increasing(g, t) == \A b \in NonEntry(g) : getDominator(t, b) # Null => getDominator(t, b) > b

\* C9: during build on a valid input every set dominator entry has a larger
\* postorder index than its node; so in every _intersectDoms call the finger
\* advanced has a non-null dominator and is never the entry, and the walk ends
\* at a node that is above (or is) both arguments in the tree being built.
C9_ChainsIncrease ==
    /\ (pc # "idle" /\ ~Increasing(graph, Tree)) => ~ValidInput(graph)
    /\ (pc = "for" /\ ValidInput(graph)) =>
          \A c \in CallsAhead :
              /\ IntersectDoms(Tree, c[1], c[2]).st = "ok"
              /\ \A f \in Advanced(Tree, c[1], c[2], WalkFuel(Tree)) :
                    f # Entry(graph) /\ getDominator(Tree, f) # Null
              /\ IntersectDoms(Tree, c[1], c[2]).node
                    \in SelfAndAbove(Tree, c[1]) \cap SelfAndAbove(Tree, c[2])

\* A walk in a later pass that moves both fingers.
C9_Witness ==
    /\ pc = "for" /\ ValidInput(graph) /\ passes > 1
    /\ \E c \in CallsAhead :
          LET adv == Advanced(Tree, c[1], c[2], WalkFuel(Tree))
          IN  Cardinality(adv) >= 2 /\ c[1] \in adv /\ c[2] \in adv

\* The immediate dominator of b in g: the strict dominator every other one dominates.
TrueIDom(g, b) ==
    CHOOSE a \in StrictDominators(g, b) :
        \A c \in StrictDominators(g, b) : Dominates(g, c, a)

\* Number of non-entry nodes whose entry is unset or is not the immediate dominator.
Wrong(g, t) == Cardinality({ b \in NonEntry(g) : getDominator(t, b) # TrueIDom(g, b) })

\* C10: on a valid input every pass of the while loop either lowers the number
\* of entries that are unset or not the immediate dominator, or changes nothing
\* and ends the loop; the number of passes is at most the node count plus one.
C10_PassesMakeProgress ==
    (pc = "while" /\ passes >= 1 /\ ValidInput(graph)) =>
        /\ changed => Wrong(graph, Tree) < Wrong(graph, passStart)
        /\ ~changed => Tree = passStart /\ ~ENABLED BeginPass
        /\ passes <= graph.size + 1

\* A second pass that corrected an entry the first pass had set.
C10_Witness ==
    /\ pc = "while" /\ passes = 2 /\ changed /\ ValidInput(graph)
    /\ \E b \in NonEntry(graph) :
          getDominator(passStart, b) # Null /\ getDominator(passStart, b) # getDominator(Tree, b)

HasUnreachable(g) == g.size >= 1 /\ ~AllReachable(g)

\* C4 as stated: with a node unreachable from the entry, build raises
\* DomTreeBuilder.Error and the index it carries is that of an unreachable node.
C4_ErrorNamesUnreachable ==
    HasUnreachable(graph) =>
        /\ pc # "done"
        /\ pc = "error" => err \notin Reachable(graph)

\* Every reachable non-entry node has a predecessor with a larger postorder
\* index, as in any depth-first postorder.
ParentsNumberedHigher(g) ==
    \A x \in Reachable(g) \ {Entry(g)} : \E p \in g.edgesTo[x] : p > x

\* The first node in processing order none of whose predecessors has a larger index.
FirstUnresolvable(g) ==
    CHOOSE x \in NonEntry(g) :
        /\ \A p \in g.edgesTo[x] : p <= x
        /\ \A y \in NonEntry(g) : (y > x) => \E p \in g.edgesTo[y] : p > y

\* C4, amended: with a node unreachable from the entry, build raises
\* DomTreeBuilder.Error in its first pass; the index it carries is that of the
\* first node in processing order that has no predecessor with a known
\* dominator, and that node is unreachable when every reachable non-entry node
\* has a predecessor with a larger postorder index.
C4_ErrorNamesFirstUnresolvable ==
    HasUnreachable(graph) =>
        /\ pc \notin {"done", "typeerror", "hang"}
        /\ passes <= 1
        /\ pc = "while" => passes = 0
        /\ pc = "error" =>
              /\ err = FirstUnresolvable(graph)
              /\ \A p \in graph.edgesTo[err] : getDominator(Tree, p) = Null
              /\ \A y \in NonEntry(graph) : (y > err) => getDominator(Tree, y) # Null
              /\ ParentsNumberedHigher(graph) => err \notin Reachable(graph)

\* An error raised for an unreachable node after reachable nodes were processed.
C4_Witness ==
    /\ pc = "error" /\ HasUnreachable(graph) /\ ParentsNumberedHigher(graph)
    /\ err \notin Reachable(graph)
    /\ graph.edgesTo[err] # {}
    /\ \E y \in NonEntry(graph) : getDominator(Tree, y) # Null

\* C6: every build call on a valid input finishes: once build is called it
\* eventually returns or raises DomTreeBuilder.Error (the while loop reaches a
\* pass that changes nothing, and no _intersectDoms walk goes on for ever).
C6_BuildTerminates ==
    (pc = "while" /\ passes = 0 /\ ValidInput(graph)) ~> (pc \in {"done", "error"})

\* A call that ended after three passes, the last of which walked across a back edge.
C6_Witness ==
    /\ pc = "done" /\ ValidInput(graph) /\ passes > 2
    /\ \E x \in NonEntry(graph) : \E p \in graph.edgesTo[x] : p < x

\* C3: a build call given the same graph as the call before it returns the same
\* node-to-dominator mapping, whatever the iteration orders of the two calls were.
C3_SameTreeWhateverTheOrder ==
    (pc = "done" /\ repeat) => Tree = heap[held]

\* The same graph built twice, with a node that has two predecessors to fold
\* and entries the second pass changed.
C3_Witness ==
    /\ pc = "done" /\ repeat /\ passes > 1 /\ graph.size = SeqNodes
    /\ \E x \in NonEntry(graph) : \E p \in graph.edgesTo[x] :
          p < x /\ Cardinality(graph.edgesTo[x]) > 2

\* C8: build calls on one builder are independent.  Every call starts from a
\* new node array and a new DominatorTree, so that a later call on a valid
\* input returns the immediate dominators of its own graph whether the call
\* before returned or failed; and no step of a later call changes the tree a
\* call has returned.
C8_CallsIndependent ==
    /\ [](pc = "while" /\ passes = 0 =>
            /\ nodes = BuildNodeArray(graph)
            /\ Tree = NewDominatorTree(graph)
            /\ held # domTree)
    /\ [](pc = "done" /\ prior # "none" /\ ValidInput(graph) =>
            \A b \in NonEntry(graph) : getDominator(Tree, b) = TrueIDom(graph, b))
    /\ [][ held' # 0 => heap'[held'] = heap[held'] ]_vars

\* A call that returned after an earlier call had failed part-way, the caller
\* holding the tree of a still earlier call.
C8_Witness ==
    /\ pc = "done" /\ prior = "failed" /\ held # 0 /\ graph.size > 1
    /\ Cardinality(DOMAIN heap[held]) = SeqNodes
    /\ DOMAIN heap[held] # DOMAIN Tree

====
